---- MODULE Spec2Model ----
(***************************************************************************)
(* GameModel (src/js/models/GameModel.js): the game state machine, the     *)
(* per-frame update, obstacle spawning, AABB collision and the persisted   *)
(* high score.                                                             *)
(*                                                                         *)
(* Numbers.  The source computes in IEEE doubles; the model computes the   *)
(* same expressions exactly, in scaled integers:                           *)
(*   time      playTime, levelTimer, deltaTime in milliseconds             *)
(*             (the source's seconds times MsPerSecond);                   *)
(*   score     in thousandths of a point (points times MsPerSecond),       *)
(*             so that score = playTime * 10 + floor(level/5) * 250 keeps  *)
(*             its shape;                                                  *)
(*   lengths   x, y, width, height in 1/PxScale pixel;                     *)
(*   speed     in tenths of a pixel per 16 ms frame;                       *)
(*   random    Math.random() in thousandths, 0 .. 999.                     *)
(***************************************************************************)
EXTENDS Integers, Sequences, FiniteSets, TLC

VARIABLES
    state,          \* this.state
    isRunning,      \* this.isRunning
    score,          \* this.score
    level,          \* this.level
    playTime,       \* this.playTime
    levelTimer,     \* this.levelTimer
    canvasWidth,    \* this.canvasWidth  (pixels)
    canvasHeight,   \* this.canvasHeight (pixels)
    player,         \* this.player
    obstacles,      \* this.obstacles
    highScore,      \* localStorage item 'highScore'
    last,           \* the call that returned last, and whether it threw
    frames,         \* effective update calls explored since the last (re)start
    probe           \* a call of a pure method: its arguments and its result

vars == <<state, isRunning, score, level, playTime, levelTimer, canvasWidth,
          canvasHeight, player, obstacles, highScore, last, frames, probe>>

----------------------------------------------------------------------------
(* Units and program constants *)

MsPerSecond == 1000
FrameMs == 16
PxScale == 4000
RandScale == 1000
SpeedScale == 10

Px(n) == n * PxScale

MaxLevel == 99
LevelUpSeconds == 30
InitialObstacles == 5

\* localStorage.getItem returns null for a key that was never set
Null == -1

validStates == <<"ready", "playing", "paused", "gameover">>

Includes(seq, x) == \E i \in 1..Len(seq) : seq[i] = x

Min(a, b) == IF a < b THEN a ELSE b
Max(a, b) == IF a > b THEN a ELSE b

----------------------------------------------------------------------------
(* Bounds and sampled inputs *)

\* effective update calls explored after Init, start() or reset()
MaxFrames == 2

\* steps of player.speed the input handler moves the player off the centre
MaxPlayerSteps == 1

\* rectangles handed to checkCollision: x, y in -1 .. MaxCoord and
\* width, height in 0 .. MaxSize
MaxCoord == 3
MaxSize == 2

\* levels at which the spawn trial is sampled: 1 .. MaxRateLevel, and MaxLevel
MaxRateLevel == 14

\* deltaTime values (ms) handed to update:
\*   1000   one second of play
\*   3000   carries a normal obstacle from its spawn row onto the player
\*   30000  exactly the level-up period
\*   60000  two level-up periods in one call
DeltaTimes == {1000, 3000, 30000, 60000}

\* deltaTime values of SpecAnyDelta: a negative one as well
AnyDeltaTimes == {-1000, 30000}

\* deltaTime values of SpecInput
InputDeltaTimes == {3000}

\* constructor arguments
CanvasSizes == {<<800, 600>>}

\* Math.random() outcomes of one _spawnObstacle call: <<type draw, x draw>>
\*   <<0, 500>>    normal, mid-canvas (in the player's column)
\*   <<850, 999>>  large, next to the right edge
SpawnDraws == {<<0, 500>>}
InputSpawnDraws == {<<0, 500>>, <<850, 999>>}

\* Math.random() outcomes of the InitialObstacles calls of one
\* _initializeObstacles: five normal obstacles in the player's column, or
\* all three types on both sides of the type thresholds and at both edges
InitDrawSeqs ==
    {<<(<<0, 500>>), (<<0, 500>>), (<<0, 500>>), (<<0, 500>>), (<<0, 500>>)>>,
     <<(<<850, 999>>), (<<599, 0>>), (<<600, 0>>), (<<849, 999>>), (<<0, 0>>)>>}

\* Math.random() outcomes of the spawn trial of _updateObstacles
TrialDraws == {0, 999}

\* values of setState's argument outside validStates
InvalidStates == {"victory"}

\* contents of the localStorage item before construction
StoredHighScores == {Null}

----------------------------------------------------------------------------
(* The GameModel object as a record, and its methods as functions on it *)

Self ==
    [state |-> state, isRunning |-> isRunning, score |-> score,
     level |-> level, playTime |-> playTime, levelTimer |-> levelTimer,
     canvasWidth |-> canvasWidth, canvasHeight |-> canvasHeight,
     player |-> player, obstacles |-> obstacles, highScore |-> highScore]

\* localStorage.getItem('highScore') || 0
HighScoreRead(item) == IF item = Null THEN 0 ELSE item

\* _updateHighScore that stores the score without comparing
UpdateHighScoreAlways(m) == [m EXCEPT !.highScore = m.score]

\* _updateHighScore: compare-and-store against localStorage
UpdateHighScore(m) ==
    LET stored == HighScoreRead(m.highScore)
    IN  IF m.score > stored THEN [m EXCEPT !.highScore = m.score] ELSE m

\* setState throws for a value outside validStates
SetStateThrows(newState) == ~Includes(validStates, newState)

\* setState whose 'paused' case leaves the running flag alone
SetStateFnPausedKeepsRunning(m, newState) ==
    IF SetStateThrows(newState) THEN m
    ELSE LET afterSwitch ==
                 CASE newState = "playing" ->
                        IF ~m.isRunning THEN [m EXCEPT !.isRunning = TRUE] ELSE m
                   [] newState = "gameover" ->
                        UpdateHighScore([m EXCEPT !.isRunning = FALSE])
                   [] OTHER -> m
         IN  [afterSwitch EXCEPT !.state = newState]

\* setState that assigns this.state before it validates newState
SetStateFnAssignsFirst(m, newState) ==
    LET m0 == [m EXCEPT !.state = newState]
    IN  IF SetStateThrows(newState) THEN m0
        ELSE CASE newState = "playing" ->
                    IF ~m0.isRunning THEN [m0 EXCEPT !.isRunning = TRUE] ELSE m0
               [] newState = "paused" -> [m0 EXCEPT !.isRunning = FALSE]
               [] newState = "gameover" ->
                    UpdateHighScore([m0 EXCEPT !.isRunning = FALSE])
               [] OTHER -> m0

\* setState whose 'gameover' case commits the high score but keeps running
SetStateFnGameoverKeepsRunning(m, newState) ==
    IF SetStateThrows(newState) THEN m
    ELSE LET afterSwitch ==
                 CASE newState = "playing" ->
                        IF ~m.isRunning THEN [m EXCEPT !.isRunning = TRUE] ELSE m
                   [] newState = "paused" -> [m EXCEPT !.isRunning = FALSE]
                   [] newState = "gameover" -> UpdateHighScore(m)
                   [] OTHER -> m
         IN  [afterSwitch EXCEPT !.state = newState]

\* setState whose 'playing' case restarts the clocks, as start() does
SetStateFnPlayingRestarts(m, newState) ==
    IF SetStateThrows(newState) THEN m
    ELSE LET afterSwitch ==
                 CASE newState = "playing" ->
                        [m EXCEPT !.isRunning = TRUE, !.playTime = 0,
                                  !.levelTimer = 0]
                   [] newState = "paused" -> [m EXCEPT !.isRunning = FALSE]
                   [] newState = "gameover" ->
                        UpdateHighScore([m EXCEPT !.isRunning = FALSE])
                   [] OTHER -> m
         IN  [afterSwitch EXCEPT !.state = newState]

\* setState(newState): the object after the call (unchanged when it throws)
SetStateFn(m, newState) ==
    IF SetStateThrows(newState) THEN m
    ELSE LET afterSwitch ==
                 CASE newState = "playing" ->
                        IF ~m.isRunning THEN [m EXCEPT !.isRunning = TRUE] ELSE m
                   [] newState = "paused" -> [m EXCEPT !.isRunning = FALSE]
                   [] newState = "gameover" ->
                        UpdateHighScore([m EXCEPT !.isRunning = FALSE])
                   [] OTHER -> m
         IN  [afterSwitch EXCEPT !.state = newState]

\* the three obstacle types selected by the first random draw
ObstacleKind(rand) ==
    IF rand < 600
    THEN [type |-> "normal", width |-> 50, height |-> 50, baseSpeed |-> 3]
    ELSE IF rand < 850
    THEN [type |-> "fast", width |-> 40, height |-> 40, baseSpeed |-> 6]
    ELSE [type |-> "large", width |-> 70, height |-> 70, baseSpeed |-> 2]

\* the speed multiplier without its upper limit
SpeedMultiplierNoLimit(lvl) == SpeedScale + (lvl - 1) * 1

\* Math.min(1 + (level - 1) * 0.1, 2.0), in tenths
SpeedMultiplier(lvl) == Min(SpeedScale + (lvl - 1) * 1, 2 * SpeedScale)

\* _spawnObstacle that places the left edge anywhere on the canvas
SpawnObstacleAnyX(m, d) ==
    LET kind == ObstacleKind(d[1])
        speed == kind.baseSpeed * SpeedMultiplier(m.level)
        obstacle ==
            [x |-> d[2] * m.canvasWidth * (PxScale \div RandScale),
             y |-> -Px(kind.height),
             width |-> Px(kind.width),
             height |-> Px(kind.height),
             speed |-> speed,
             type |-> kind.type]
    IN  [m EXCEPT !.obstacles = Append(@, obstacle)]

\* _spawnObstacle with the random draws d = <<type draw, x draw>>
SpawnObstacle(m, d) ==
    LET kind == ObstacleKind(d[1])
        speed == kind.baseSpeed * SpeedMultiplier(m.level)
        obstacle ==
            [x |-> d[2] * (m.canvasWidth - kind.width) * (PxScale \div RandScale),
             y |-> -Px(kind.height),
             width |-> Px(kind.width),
             height |-> Px(kind.height),
             speed |-> speed,
             type |-> kind.type]
    IN  [m EXCEPT !.obstacles = Append(@, obstacle)]

RECURSIVE SpawnLoop(_, _, _)
SpawnLoop(m, ds, i) ==
    IF i > InitialObstacles THEN m
    ELSE SpawnLoop(SpawnObstacle(m, ds[i]), ds, i + 1)

\* _initializeObstacles that does not empty the list first
InitializeObstaclesNoClear(m, ds) == SpawnLoop(m, ds, 1)

\* _initializeObstacles with the draws ds[1..InitialObstacles]
InitializeObstacles(m, ds) ==
    SpawnLoop([m EXCEPT !.obstacles = <<>>], ds, 1)

\* constructor(canvasWidth, canvasHeight), localStorage holding stored
Constructor(cw, ch, stored, ds) ==
    InitializeObstacles(
        [state |-> "ready", score |-> 0, level |-> 1, playTime |-> 0,
         levelTimer |-> 0, isRunning |-> FALSE,
         canvasWidth |-> cw, canvasHeight |-> ch,
         player |-> [x |-> Px(cw) \div 2, y |-> Px(ch - 100),
                     width |-> Px(50), height |-> Px(50), speed |-> 10],
         obstacles |-> <<>>, highScore |-> stored], ds)

\* start that forgets to zero the play time
StartFnKeepsPlayTime(m, ds) ==
    InitializeObstacles(
        [m EXCEPT !.isRunning = TRUE, !.score = 0, !.level = 1,
                  !.levelTimer = 0], ds)

StartFn(m, ds) ==
    InitializeObstacles(
        [m EXCEPT !.isRunning = TRUE, !.score = 0, !.level = 1,
                  !.playTime = 0, !.levelTimer = 0], ds)

StopFn(m) == [m EXCEPT !.isRunning = FALSE]

ResetFn(m, ds) ==
    SetStateFn(
        InitializeObstacles(
            [m EXCEPT !.player.x = Px(m.canvasWidth) \div 2,
                      !.player.y = Px(m.canvasHeight - 100),
                      !.score = 0, !.level = 1, !.playTime = 0,
                      !.levelTimer = 0], ds),
        "ready")

\* checkCollision with inclusive comparisons: touching edges count as apart
checkCollisionTouchApart(entity1, entity2) ==
    ~(\/ entity1.x >= entity2.x + entity2.width
      \/ entity1.x + entity1.width <= entity2.x
      \/ entity1.y >= entity2.y + entity2.height
      \/ entity1.y + entity1.height <= entity2.y)

\* checkCollision whose vertical test reads the widths
checkCollisionWidthForHeight(entity1, entity2) ==
    ~(\/ entity1.x > entity2.x + entity2.width
      \/ entity1.x + entity1.width < entity2.x
      \/ entity1.y > entity2.y + entity2.width
      \/ entity1.y + entity1.width < entity2.y)

\* checkCollision(entity1, entity2)
checkCollision(entity1, entity2) ==
    ~(\/ entity1.x > entity2.x + entity2.width
      \/ entity1.x + entity1.width < entity2.x
      \/ entity1.y > entity2.y + entity2.height
      \/ entity1.y + entity1.height < entity2.y)

\* _checkCollisions that looks at the first obstacle only
CheckCollisionsFirstOnly(m) ==
    IF Len(m.obstacles) > 0 /\ checkCollision(m.player, m.obstacles[1])
    THEN SetStateFn(m, "gameover")
    ELSE m

\* _checkCollisions: the first overlapping obstacle ends the game
CheckCollisions(m) ==
    IF \E i \in 1..Len(m.obstacles) : checkCollision(m.player, m.obstacles[i])
    THEN SetStateFn(m, "gameover")
    ELSE m

\* the spawn rate without its upper limit
CurrentSpawnRateNoLimit(lvl) == 20 + (lvl - 1) * 5

\* Math.min(0.02 + (level - 1) * 0.005, 0.08), in thousandths
CurrentSpawnRate(lvl) == Min(20 + (lvl - 1) * 5, 80)

\* obstacle.y += obstacle.speed * (deltaTime / 16)
MoveObstacle(o, deltaTime) ==
    [o EXCEPT !.y = @ + o.speed * deltaTime * (PxScale \div (SpeedScale * FrameMs))]

\* a filter that keeps an obstacle lying on the bottom edge
OnScreenOrOnEdge(o, ch) == o.y <= Px(ch)

\* the filter of _updateObstacles keeps these
OnScreen(o, ch) == o.y < Px(ch)

\* _updateObstacles whose successful trial spawns two obstacles
UpdateObstaclesSpawnsTwice(m, deltaTime, trial, d) ==
    LET moved == [i \in 1..Len(m.obstacles) |-> MoveObstacle(m.obstacles[i], deltaTime)]
        kept == SelectSeq(moved, LAMBDA o : OnScreen(o, m.canvasHeight))
        m1 == [m EXCEPT !.obstacles = kept]
    IN  IF trial < CurrentSpawnRate(m.level)
        THEN SpawnObstacle(SpawnObstacle(m1, d), d)
        ELSE m1

\* _updateObstacles(deltaTime) with the trial draw and the spawn draws d
UpdateObstacles(m, deltaTime, trial, d) ==
    LET moved == [i \in 1..Len(m.obstacles) |-> MoveObstacle(m.obstacles[i], deltaTime)]
        kept == SelectSeq(moved, LAMBDA o : OnScreen(o, m.canvasHeight))
        m1 == [m EXCEPT !.obstacles = kept]
    IN  IF trial < CurrentSpawnRate(m.level) THEN SpawnObstacle(m1, d) ELSE m1

\* update guarded by the running flag alone
UpdateRunsIgnoresState(m) == m.isRunning

\* update returns at once unless running and playing
UpdateRuns(m) == ~(~m.isRunning \/ m.state # "playing")

\* level-up without the cap
LevelUpNoCap(lvl, timer) ==
    IF timer >= LevelUpSeconds * MsPerSecond
    THEN <<lvl + 1, 0>>
    ELSE <<lvl, timer>>

\* level-up that catches up every elapsed period in one call
LevelUpCatchUp(lvl, timer) ==
    IF timer >= LevelUpSeconds * MsPerSecond /\ lvl < MaxLevel
    THEN <<Min(lvl + timer \div (LevelUpSeconds * MsPerSecond), MaxLevel), 0>>
    ELSE <<lvl, timer>>

\* level-up that carries the time past the period over to the next level
LevelUpCarriesOver(lvl, timer) ==
    IF timer >= LevelUpSeconds * MsPerSecond /\ lvl < MaxLevel
    THEN <<lvl + 1, timer - LevelUpSeconds * MsPerSecond>>
    ELSE <<lvl, timer>>

\* the level-up step of update: <<level, levelTimer>> after it
LevelUp(lvl, timer) ==
    IF timer >= LevelUpSeconds * MsPerSecond /\ lvl < MaxLevel
    THEN <<lvl + 1, 0>>
    ELSE <<lvl, timer>>

\* the score with the level bonus not rounded down to whole steps of 5
ScoreOfLevelNotFloored(time, lvl) == time * 10 + lvl * 50 * MsPerSecond

\* score = playTime * 10 + Math.floor(level / 5) * 250
ScoreOf(time, lvl) == time * 10 + (lvl \div 5) * 250 * MsPerSecond

\* update that scores the level timer instead of the play time
UpdateFnScoresLevelTimer(m, deltaTime, trial, d) ==
    IF ~UpdateRuns(m) THEN m
    ELSE LET time == m.playTime + deltaTime
             lt == LevelUp(m.level, m.levelTimer + deltaTime)
             m1 == [m EXCEPT !.playTime = time, !.levelTimer = lt[2],
                             !.level = lt[1], !.score = ScoreOf(lt[2], lt[1])]
         IN  CheckCollisions(UpdateObstacles(m1, deltaTime, trial, d))

\* update(deltaTime) with the random draws of this call
UpdateFn(m, deltaTime, trial, d) ==
    IF ~UpdateRuns(m) THEN m
    ELSE LET time == m.playTime + deltaTime
             lt == LevelUp(m.level, m.levelTimer + deltaTime)
             m1 == [m EXCEPT !.playTime = time, !.levelTimer = lt[2],
                             !.level = lt[1], !.score = ScoreOf(time, lt[1])]
         IN  CheckCollisions(UpdateObstacles(m1, deltaTime, trial, d))

----------------------------------------------------------------------------
(* The state machine *)

Assign(m) ==
    /\ state' = m.state
    /\ isRunning' = m.isRunning
    /\ score' = m.score
    /\ level' = m.level
    /\ playTime' = m.playTime
    /\ levelTimer' = m.levelTimer
    /\ canvasWidth' = m.canvasWidth
    /\ canvasHeight' = m.canvasHeight
    /\ player' = m.player
    /\ obstacles' = m.obstacles
    /\ highScore' = m.highScore

Call(op, threw) == [op |-> op, threw |-> threw]

\* no pure method under test
NoProbe == [fn |-> "none"]

\* a game played before the first explored call: setState('playing') and
\* n frames of WarmDelta ms whose spawn trials all fail
WarmDelta == LevelUpSeconds * MsPerSecond
WarmUps == {0, 97}

RECURSIVE WarmFrames(_, _)
WarmFrames(m, n) ==
    IF n = 0 THEN m
    ELSE IF n = 1 THEN UpdateFn(m, WarmDelta, RandScale - 1, <<0, 0>>)
    ELSE LET half == WarmFrames(m, n \div 2)
         IN  IF half.level >= m.level THEN WarmFrames(half, n - n \div 2) ELSE half

WarmUp(m, n) ==
    IF n = 0 THEN m ELSE WarmFrames(SetStateFn(m, "playing"), n)

Init ==
    \E size \in CanvasSizes, stored \in StoredHighScores,
       ds \in InitDrawSeqs, n \in WarmUps :
        LET m == WarmUp(Constructor(size[1], size[2], stored, ds), n)
        IN  /\ state = m.state
            /\ isRunning = m.isRunning
            /\ score = m.score
            /\ level = m.level
            /\ playTime = m.playTime
            /\ levelTimer = m.levelTimer
            /\ canvasWidth = m.canvasWidth
            /\ canvasHeight = m.canvasHeight
            /\ player = m.player
            /\ obstacles = m.obstacles
            /\ highScore = m.highScore
            /\ last = IF n = 0 THEN Call("constructor", FALSE)
                      ELSE Call("update", FALSE)
            /\ frames = 0
            /\ probe = NoProbe

SetState(newState) ==
    /\ Assign(SetStateFn(Self, newState))
    /\ last' = Call("setState", SetStateThrows(newState))
    /\ UNCHANGED <<frames, probe>>

Start ==
    \E ds \in InitDrawSeqs :
        /\ Assign(StartFn(Self, ds))
        /\ last' = Call("start", FALSE)
        /\ frames' = 0
        /\ UNCHANGED probe

Stop ==
    /\ Assign(StopFn(Self))
    /\ last' = Call("stop", FALSE)
    /\ UNCHANGED <<frames, probe>>

Reset ==
    \E ds \in InitDrawSeqs :
        /\ Assign(ResetFn(Self, ds))
        /\ last' = Call("reset", FALSE)
        /\ frames' = 0
        /\ UNCHANGED probe

\* the random draws are consumed only by a call that runs
TrialsFor(m) == IF UpdateRuns(m) THEN TrialDraws ELSE {RandScale - 1}
DrawsFor(m, draws) == IF UpdateRuns(m) THEN draws ELSE {<<0, 0>>}

\* update(deltaTime), the spawn draws taken from draws
Update(deltaTime, draws) ==
    /\ UpdateRuns(Self) => frames < MaxFrames
    /\ \E trial \in TrialsFor(Self), d \in DrawsFor(Self, draws) :
           Assign(UpdateFn(Self, deltaTime, trial, d))
    /\ last' = Call("update", FALSE)
    /\ frames' = IF UpdateRuns(Self) THEN frames + 1 ELSE frames
    /\ UNCHANGED probe

\* input handling (outside GameModel) moves the player sideways by its speed
MovePlayer(dir) ==
    LET x == player.x + dir * Px(player.speed)
        centre == Px(canvasWidth) \div 2
    IN  /\ x - centre <= MaxPlayerSteps * Px(player.speed)
        /\ centre - x <= MaxPlayerSteps * Px(player.speed)
        /\ player' = [player EXCEPT !.x = x]
        /\ last' = Call("movePlayer", FALSE)
        /\ UNCHANGED <<state, isRunning, score, level, playTime, levelTimer,
                       canvasWidth, canvasHeight, obstacles, highScore, frames,
                       probe>>

StateArgs == {validStates[i] : i \in 1..Len(validStates)} \cup InvalidStates

\* the public operations of GameModel
Next ==
    \/ \E newState \in StateArgs : SetState(newState)
    \/ Start
    \/ Stop
    \/ Reset
    \/ \E deltaTime \in DeltaTimes : Update(deltaTime, SpawnDraws)

Spec == Init /\ [][Next]_vars

\* setState, reset and update only: no start(), no stop()
NextLifecycle ==
    \/ \E newState \in StateArgs : SetState(newState)
    \/ Reset
    \/ \E deltaTime \in DeltaTimes : Update(deltaTime, SpawnDraws)

SpecLifecycle == Init /\ [][NextLifecycle]_vars

\* the public operations, update with negative deltaTime too
NextAnyDelta ==
    \/ \E newState \in StateArgs : SetState(newState)
    \/ Start
    \/ Stop
    \/ Reset
    \/ \E deltaTime \in AnyDeltaTimes : Update(deltaTime, SpawnDraws)

SpecAnyDelta == Init /\ [][NextAnyDelta]_vars

\* the public operations and the input handler
NextInput ==
    \/ \E newState \in StateArgs : SetState(newState)
    \/ Start
    \/ Stop
    \/ Reset
    \/ \E deltaTime \in InputDeltaTimes : Update(deltaTime, InputSpawnDraws)
    \/ \E dir \in {-1, 1} : MovePlayer(dir)

SpecInput == Init /\ [][NextInput]_vars

\* frames that carry a level-1 large obstacle from its spawn row onto the
\* bottom edge (5360 ms) and short of it, and draws of every obstacle type at
\* both ends of the x range
ObstacleDeltaTimes == {3000, 5360, 30000}
ObstacleSpawnDraws == {<<0, 0>>, <<849, 999>>, <<850, 999>>}

\* setState, reset and update with obstacles of every type
NextObstacles ==
    \/ \E newState \in StateArgs : SetState(newState)
    \/ Reset
    \/ \E deltaTime \in ObstacleDeltaTimes : Update(deltaTime, ObstacleSpawnDraws)

\* a game three seconds short of its first level-up: setState('playing') and
\* one frame of LateDelta ms that clears the first obstacles and spawns one
LateDelta == (LevelUpSeconds - 3) * MsPerSecond

InitObstacles ==
    \/ Init
    \/ \E size \in CanvasSizes, ds \in InitDrawSeqs, d \in ObstacleSpawnDraws :
           LET m == UpdateFn(SetStateFn(Constructor(size[1], size[2], Null, ds),
                                        "playing"),
                             LateDelta, 0, d)
           IN  /\ state = m.state
               /\ isRunning = m.isRunning
               /\ score = m.score
               /\ level = m.level
               /\ playTime = m.playTime
               /\ levelTimer = m.levelTimer
               /\ canvasWidth = m.canvasWidth
               /\ canvasHeight = m.canvasHeight
               /\ player = m.player
               /\ obstacles = m.obstacles
               /\ highScore = m.highScore
               /\ last = Call("update", FALSE)
               /\ frames = 0
               /\ probe = NoProbe

SpecObstacles == InitObstacles /\ [][NextObstacles]_vars

----------------------------------------------------------------------------
(* checkCollision as a pure method: the rectangles are drawn in the initial *)
(* state and the call stores its result                                     *)

Rects ==
    [x : -1..MaxCoord, y : -1..MaxCoord, width : 0..MaxSize, height : 0..MaxSize]

\* a constructed model, untouched by the calls of its pure methods
InitModel ==
    LET m == Constructor(800, 600, Null,
                         CHOOSE ds \in InitDrawSeqs : ds[1] = <<0, 500>>)
    IN  /\ state = m.state
        /\ isRunning = m.isRunning
        /\ score = m.score
        /\ level = m.level
        /\ playTime = m.playTime
        /\ levelTimer = m.levelTimer
        /\ canvasWidth = m.canvasWidth
        /\ canvasHeight = m.canvasHeight
        /\ player = m.player
        /\ obstacles = m.obstacles
        /\ highScore = m.highScore
        /\ last = Call("constructor", FALSE)
        /\ frames = 0

InitCollision ==
    /\ InitModel
    /\ \E a \in Rects, b \in Rects :
           probe = [fn |-> "checkCollision", a |-> a, b |-> b,
                    called |-> FALSE, result |-> FALSE]

\* checkCollision(a, b)
CheckCollisionCall ==
    /\ probe.fn = "checkCollision"
    /\ ~probe.called
    /\ probe' = [probe EXCEPT !.called = TRUE,
                              !.result = checkCollision(probe.a, probe.b)]
    /\ last' = Call("checkCollision", FALSE)
    /\ UNCHANGED <<state, isRunning, score, level, playTime, levelTimer,
                   canvasWidth, canvasHeight, player, obstacles, highScore,
                   frames>>

NextCollision == CheckCollisionCall

SpecCollision == InitCollision /\ [][NextCollision]_vars

----------------------------------------------------------------------------
(* the spawn trial of _updateObstacles as a function of the level and of    *)
(* the value of Math.random(): both are drawn in the initial state          *)

RateLevels == 1..MaxRateLevel \cup {MaxLevel}

InitSpawnTrial ==
    /\ InitModel
    /\ \E lvl \in RateLevels, trial \in 0..(RandScale - 1) :
           probe = [fn |-> "spawnTrial", level |-> lvl, trial |-> trial,
                    called |-> FALSE, rate |-> 0, spawned |-> FALSE]

\* _updateObstacles(0) of a model at the drawn level with no obstacles
SpawnTrialCall ==
    /\ probe.fn = "spawnTrial"
    /\ ~probe.called
    /\ LET m == [Self EXCEPT !.level = probe.level, !.obstacles = <<>>]
           after == UpdateObstacles(m, 0, probe.trial, <<0, 500>>)
       IN  probe' = [probe EXCEPT !.called = TRUE,
                                  !.rate = CurrentSpawnRate(probe.level),
                                  !.spawned = Len(after.obstacles) = 1]
    /\ last' = Call("_updateObstacles", FALSE)
    /\ UNCHANGED <<state, isRunning, score, level, playTime, levelTimer,
                   canvasWidth, canvasHeight, player, obstacles, highScore,
                   frames>>

NextSpawnTrial == SpawnTrialCall

SpecSpawnTrial == InitSpawnTrial /\ [][NextSpawnTrial]_vars

----------------------------------------------------------------------------
(* Properties *)

\* everything update, setState and the others may touch, but the call record
Data == <<state, isRunning, score, level, playTime, levelTimer, obstacles, highScore>>

\* C1, as stated: isRunning is true if and only if state is 'playing'.
C1_RunningIffPlaying == isRunning <=> (state = "playing")

\* C1, amended: under setState, reset and update alone (start() and stop()
\* set the running flag without touching state), state 'playing' implies
\* isRunning, and state 'paused' or 'gameover' implies not isRunning; in
\* state 'ready' the flag may be either.
C1_RunningFollowsState ==
    /\ state = "playing" => isRunning
    /\ state \in {"paused", "gameover"} => ~isRunning

\* a game that was played and then paused
C1_Witness == state = "paused" /\ ~isRunning /\ playTime > 0

\* C2: setState with a value outside validStates raises an error and leaves
\* state, isRunning, score, level, the timers, the obstacles and the stored
\* high score as they were.
C2_InvalidStateRejected ==
    [][\A newState \in InvalidStates :
          (last'.op = "setState" /\ SetState(newState))
              => (last'.threw /\ UNCHANGED Data)]_vars

\* an invalid setState thrown in the middle of a game
C2_Witness ==
    last.op = "setState" /\ last.threw /\ state = "playing" /\ playTime > 0

\* C3: after setState(newState) with a valid newState, state is newState,
\* isRunning is true for 'playing' and false for 'paused' and 'gameover'.
C3_SetStateEstablishes ==
    [][\A newState \in {validStates[i] : i \in 1..Len(validStates)} :
          (last'.op = "setState" /\ SetState(newState)) =>
              /\ ~last'.threw
              /\ state' = newState
              /\ newState = "playing" => isRunning'
              /\ newState \in {"paused", "gameover"} => ~isRunning']_vars

\* setState('gameover') called on a running game
C3_Witness ==
    last.op = "setState" /\ ~last.threw /\ state = "gameover" /\ ~isRunning
    /\ playTime > 0

\* C4: an update call made when isRunning is false or state is not 'playing'
\* changes nothing, whatever deltaTime is.
C4_IdleUpdateChangesNothing ==
    [][(last'.op = "update" /\ (~isRunning \/ state # "playing"))
          => UNCHANGED Data]_vars

\* update called on a started model whose state is still 'ready'
C4_Witness ==
    last.op = "update" /\ isRunning /\ state = "ready" /\ frames = 0

\* C5: an update call made while playing with deltaTime >= 0 (the play time
\* did not go back) never lowers score.
C5_ScoreMonotonic ==
    [][(last'.op = "update" /\ isRunning /\ state = "playing"
        /\ playTime' >= playTime)
          => score' >= score]_vars

\* two updates, the second one a level-up, the score got larger both times
C5_Witness ==
    last.op = "update" /\ frames = 2 /\ level = 2 /\ levelTimer = 0
    /\ score = ScoreOf(playTime, level) /\ playTime = 31000

\* C6: level is at least 1 and at most 99 in every reachable state, for any
\* deltaTime, negative ones included.
C6_LevelInRange == level >= 1 /\ level <= 99

\* level 99 with a level timer past the level-up period: the cap held
C6_Witness == level = 99 /\ levelTimer >= 30000 /\ last.op = "update"

\* C7: the stored high score changes only in a call that enters 'gameover'
\* (setState('gameover'), or an update that ends in a collision); after such
\* a call it is the larger of its previous value and the current score (a
\* missing item reads as 0); every other call leaves the item alone; so it
\* never decreases.
C7_HighScoreCommit ==
    [][LET commit ==
               \/ (last'.op = "setState" /\ ~last'.threw /\ state' = "gameover")
               \/ (last'.op = "update" /\ isRunning /\ state = "playing"
                   /\ state' = "gameover")
       IN  /\ commit => HighScoreRead(highScore') =
                            Max(HighScoreRead(highScore), score')
           /\ ~commit => highScore' = highScore
           /\ HighScoreRead(highScore') >= HighScoreRead(highScore)]_vars

\* a collision in update stored the score computed in that call
C7_Witness ==
    last.op = "update" /\ state = "gameover" /\ highScore = score /\ score > 0

\* C8: reset() leaves score 0, level 1, playTime 0, levelTimer 0, state
\* 'ready', the player at (canvasWidth/2, canvasHeight-100) and exactly 5
\* obstacles.
C8_ResetRestores ==
    last.op = "reset" =>
        /\ score = 0
        /\ level = 1
        /\ playTime = 0
        /\ levelTimer = 0
        /\ state = "ready"
        /\ player.x = Px(canvasWidth) \div 2
        /\ player.y = Px(canvasHeight - 100)
        /\ Len(obstacles) = 5

\* reset() after a game that ended with a stored score
C8_Witness == last.op = "reset" /\ highScore # Null /\ highScore > 0

\* C9: on an 800 x 600 model on which no update has run since start() (or
\* construction or reset()), and whose state is 'playing', update(1000)
\* leaves playTime 1 s, level 1, score 10 and levelTimer 1 s, whatever the
\* random draws are.
C9_FirstSecond ==
    [][(/\ canvasWidth = 800 /\ canvasHeight = 600
        /\ frames = 0 /\ level = 1
        /\ isRunning /\ state = "playing"
        /\ last'.op = "update" /\ Update(1000, SpawnDraws))
          => /\ playTime' = 1 * MsPerSecond
             /\ level' = 1
             /\ score' = 10 * MsPerSecond
             /\ levelTimer' = 1 * MsPerSecond]_vars

\* the first second of a game, a new obstacle spawned in it
C9_Witness ==
    /\ last.op = "update" /\ frames = 1 /\ state = "playing"
    /\ playTime = 1000 /\ levelTimer = 1000 /\ level = 1 /\ score = 10000
    /\ Len(obstacles) = InitialObstacles + 1

\* C10: an update made while playing raises level by exactly 1 when
\* levelTimer plus deltaTime reaches 30 s and level is below 99, and then
\* leaves levelTimer 0; otherwise level is unchanged.
C10_OneLevelPerCall ==
    [][\A deltaTime \in DeltaTimes :
          (isRunning /\ state = "playing" /\ last'.op = "update"
           /\ Update(deltaTime, SpawnDraws)) =>
              IF levelTimer + deltaTime >= 30 * MsPerSecond /\ level < 99
              THEN level' = level + 1 /\ levelTimer' = 0
              ELSE level' = level]_vars

\* 61 s of play in two calls, one level gained
C10_Witness ==
    last.op = "update" /\ playTime = 61000 /\ level = 2 /\ levelTimer = 0

\* the two rectangles overlap on the x axis, resp. the y axis, by more than
\* an edge
OverlapX(a, b) == a.x < b.x + b.width /\ b.x < a.x + a.width
OverlapY(a, b) == a.y < b.y + b.height /\ b.y < a.y + a.height

\* the rectangles only touch: an edge of one lies on the opposite edge of the
\* other, with overlap on the other axis
TouchOnly(a, b) ==
    \/ (a.x + a.width = b.x \/ a.x = b.x + b.width) /\ OverlapY(a, b)
    \/ (a.y + a.height = b.y \/ a.y = b.y + b.height) /\ OverlapX(a, b)

\* C11, as stated: checkCollision reports two rectangles that only touch at
\* a boundary as non-colliding.
C11_TouchIsApart ==
    (probe.fn = "checkCollision" /\ probe.called /\ TouchOnly(probe.a, probe.b))
        => ~probe.result

\* C11, amended: checkCollision reports two rectangles that only touch at a
\* boundary (with overlap on the other axis) as colliding; only a gap on an
\* axis makes them non-colliding.
C11_TouchCollides ==
    (probe.fn = "checkCollision" /\ probe.called /\ TouchOnly(probe.a, probe.b))
        => probe.result

\* a's right edge on b's left edge, checked and reported as colliding
C11_Witness ==
    /\ probe.fn = "checkCollision" /\ probe.called /\ probe.result
    /\ probe.a.x + probe.a.width = probe.b.x
    /\ OverlapY(probe.a, probe.b)
    /\ probe.a.width > 0 /\ probe.b.width > 0

\* twice the distance of the centres on an axis, and the sum of the extents
CentreGap2X(a, b) ==
    LET d == (2 * a.x + a.width) - (2 * b.x + b.width)
    IN  IF d < 0 THEN -d ELSE d
CentreGap2Y(a, b) ==
    LET d == (2 * a.y + a.height) - (2 * b.y + b.height)
    IN  IF d < 0 THEN -d ELSE d

\* C12: checkCollision(a, b) is true when a and b have the same coordinates
\* and positive size, and false when on some axis the centres are further
\* apart than the sum of the half-extents.
C12_CollisionSound ==
    (probe.fn = "checkCollision" /\ probe.called) =>
        LET a == probe.a
            b == probe.b
        IN  /\ (a = b /\ a.width > 0 /\ a.height > 0) => probe.result
            /\ (\/ CentreGap2X(a, b) > a.width + b.width
                \/ CentreGap2Y(a, b) > a.height + b.height) => ~probe.result

\* rectangles that overlap in x and are separated in y only, found apart
C12_Witness ==
    /\ probe.fn = "checkCollision" /\ probe.called /\ ~probe.result
    /\ OverlapX(probe.a, probe.b)
    /\ CentreGap2Y(probe.a, probe.b) > probe.a.height + probe.b.height
    /\ probe.a.width # probe.a.height

\* C13: the spawn probability of one update at level L is
\* min(0.02 + (L - 1) * 0.005, 0.08): in thousandths it grows by 5 a level
\* from 20 at level 1 up to level 13 and is 80 from there on, so it lies in
\* 20 .. 80, and the trial spawns exactly when Math.random() is below it.
C13_SpawnRate ==
    (probe.fn = "spawnTrial" /\ probe.called) =>
        /\ probe.rate = IF probe.level <= 13 THEN 20 + (probe.level - 1) * 5
                                             ELSE 80
        /\ probe.rate >= 20 /\ probe.rate <= 80
        /\ probe.spawned <=> probe.trial < probe.rate

\* past level 13 the rate has stopped at 80: a draw of 0.079 spawns
C13_Witness ==
    /\ probe.fn = "spawnTrial" /\ probe.called
    /\ probe.level > 13 /\ probe.trial = 79 /\ probe.spawned

\* base speed of an obstacle type, in px per 16 ms frame
BaseSpeedOf(type) ==
    IF type = "normal" THEN 3 ELSE IF type = "fast" THEN 6 ELSE 2

\* min(1 + (L - 1) * 0.1, 2.0) in tenths: one tenth a level up to level 11
MultiplierAt(lvl) == IF lvl <= 11 THEN 10 + (lvl - 1) ELSE 20

\* o sits in its spawn row, just above the canvas
Fresh(o) == o.y = -o.height

\* o is an obstacle of the list obs, moved down or not
SameObstacle(o, obs) ==
    \E j \in 1..Len(obs) :
        /\ obs[j].x = o.x /\ obs[j].type = o.type
        /\ obs[j].width = o.width /\ obs[j].height = o.height
        /\ obs[j].y <= o.y

\* C14: every obstacle's speed is the base speed of its type (normal 3,
\* fast 6, large 2) times min(1 + (L - 1) * 0.1, 2.0) for the level L at
\* which it was spawned, hence between 1.0 and 2.0 times the base speed, and
\* an obstacle that stays in the list keeps its speed.
C14_SpeedInRange ==
    \A i \in 1..Len(obstacles) :
        LET o == obstacles[i]
        IN  /\ o.speed >= BaseSpeedOf(o.type) * 10
            /\ o.speed <= BaseSpeedOf(o.type) * 20

C14_SpeedStep ==
    \A i \in 1..Len(obstacles') :
        LET o == obstacles'[i]
        IN  \/ /\ Fresh(o)
               /\ o.speed = BaseSpeedOf(o.type) * MultiplierAt(level')
            \/ /\ ~Fresh(o)
               /\ \E j \in 1..Len(obstacles) :
                      /\ SameObstacle(o, <<obstacles[j]>>)
                      /\ obstacles[j].speed = o.speed
            \/ UNCHANGED obstacles

C14_ObstacleSpeed == []C14_SpeedInRange /\ [][C14_SpeedStep]_vars

\* at level 2 an obstacle spawned at level 1 has moved on at its base speed
\* next to an obstacle spawned at level 2
C14_Witness ==
    /\ level = 2 /\ state = "playing"
    /\ \E i, j \in 1..Len(obstacles) :
           /\ ~Fresh(obstacles[i])
           /\ obstacles[i].speed = BaseSpeedOf(obstacles[i].type) * 10
           /\ obstacles[j].speed = BaseSpeedOf(obstacles[j].type) * 11

\* C15: an update call made while running and playing ends in 'gameover'
\* with isRunning false and the high score committed against the score
\* computed in that call exactly when, after the movement, the removal and
\* the spawn trial of the call, some obstacle overlaps the player by
\* checkCollision; otherwise the call ends in 'playing', still running, with
\* the stored high score untouched.
C15_GameOverIffCollision ==
    [][(last'.op = "update" /\ isRunning /\ state = "playing") =>
          LET hit == \E i \in 1..Len(obstacles') :
                         checkCollision(player', obstacles'[i])
          IN  /\ hit => /\ state' = "gameover"
                        /\ ~isRunning'
                        /\ score' = playTime' * 10
                                    + (level' \div 5) * 250 * MsPerSecond
                        /\ HighScoreRead(highScore') =
                               Max(HighScoreRead(highScore), score')
              /\ ~hit => /\ state' = "playing"
                         /\ isRunning'
                         /\ highScore' = highScore]_vars

\* an update ended the game on an obstacle that is not the first of the list
C15_Witness ==
    /\ last.op = "update" /\ state = "gameover" /\ ~isRunning
    /\ Len(obstacles) > 1
    /\ ~checkCollision(player, obstacles[1])
    /\ \E i \in 2..Len(obstacles) : checkCollision(player, obstacles[i])
    /\ highScore = score

\* the obstacles of the list obs after deltaTime ms of movement
Moved(obs, deltaTime) ==
    [i \in 1..Len(obs) |-> MoveObstacle(obs[i], deltaTime)]

\* the list after is the list kept, or the list kept and one obstacle in
\* its spawn row behind it
KeptThenSpawned(after, kept) ==
    \/ after = kept
    \/ /\ Len(after) = Len(kept) + 1
       /\ SubSeq(after, 1, Len(kept)) = kept
       /\ Fresh(after[Len(after)])

\* C16, as stated: in an update call made while playing an obstacle is
\* removed exactly when its y after the movement of the call exceeds the
\* canvas height (y at most the canvas height is kept), and the removal
\* precedes the spawn trial.
C16_RemovedAboveHeight ==
    [][(last'.op = "update" /\ isRunning /\ state = "playing") =>
          LET moved == Moved(obstacles, playTime' - playTime)
              kept == SelectSeq(moved, LAMBDA o : ~(o.y > Px(canvasHeight)))
          IN  KeptThenSpawned(obstacles', kept)]_vars

\* C16, amended: in an update call made while playing an obstacle is removed
\* exactly when its y after the movement of the call is at least the canvas
\* height (only y below the canvas height is kept), and the removal precedes
\* the spawn trial: an obstacle spawned in the call is never removed by it.
C16_RemovedFromHeight ==
    [][(last'.op = "update" /\ isRunning /\ state = "playing") =>
          LET moved == Moved(obstacles, playTime' - playTime)
              kept == SelectSeq(moved, LAMBDA o : ~(o.y >= Px(canvasHeight)))
          IN  KeptThenSpawned(obstacles', kept)]_vars

\* the first frame, of 5360 ms, has carried the level-1 obstacles to the
\* bottom edge (the large one: -70 + 2 * 5360 / 16 = 600) or past it; none is
\* left but the one spawned in the same call
C16_Witness ==
    /\ last.op = "update" /\ state = "playing"
    /\ playTime = 5360 /\ level = 1
    /\ Len(obstacles) = 1 /\ Fresh(obstacles[1])

\* C17: an update call adds at most one obstacle: the number of obstacles
\* after the call is at most the number before it plus one.
C17_AtMostOneSpawn ==
    [][last'.op = "update" => Len(obstacles') <= Len(obstacles) + 1]_vars

\* an update kept the five first obstacles and spawned a sixth
C17_Witness ==
    /\ last.op = "update" /\ frames = 1
    /\ Len(obstacles) = InitialObstacles + 1
    /\ Fresh(obstacles[Len(obstacles)])

\* type, width and height of the three kinds of obstacle, in px
ObstacleShapes ==
    {<<"normal", 50, 50>>, <<"fast", 40, 40>>, <<"large", 70, 70>>}

\* C18: an obstacle is created as one of (normal, 50, 50), (fast, 40, 40),
\* (large, 70, 70), with y = -height and x in [0, canvasWidth - width); so
\* in every state every obstacle has 0 <= x and x + width <= canvasWidth.
C18_ShapeAndSpan ==
    \A i \in 1..Len(obstacles) :
        LET o == obstacles[i]
        IN  /\ \E shape \in ObstacleShapes :
                   /\ o.type = shape[1]
                   /\ o.width = Px(shape[2])
                   /\ o.height = Px(shape[3])
            /\ 0 <= o.x
            /\ o.x < Px(canvasWidth) - o.width
            /\ o.x + o.width <= Px(canvasWidth)

C18_CreatedAboveCanvas ==
    \A i \in 1..Len(obstacles') :
        \/ Fresh(obstacles'[i])
        \/ SameObstacle(obstacles'[i], obstacles)

C18_ObstacleCreation == []C18_ShapeAndSpan /\ [][C18_CreatedAboveCanvas]_vars

\* a large obstacle drawn at the right end of its range has moved down with
\* its right edge inside the last pixel column
C18_Witness ==
    \E i \in 1..Len(obstacles) :
        /\ obstacles[i].type = "large"
        /\ obstacles[i].x + obstacles[i].width > Px(canvasWidth - 1)
        /\ ~Fresh(obstacles[i])

\* C19: the score is derived: in every state reachable through the public
\* operations, score = playTime * 10 + floor(level / 5) * 250 (time in ms,
\* score in thousandths of a point).
C19_ScoreDerived ==
    score = playTime * 10 + (level \div 5) * 250 * MsPerSecond

\* a score that carries the bonus of level 99, 19 * 250, and play time on
\* top, after a level-up explored from level 98
C19_Witness ==
    /\ last.op = "update" /\ frames > 0
    /\ level = MaxLevel
    /\ score > 19 * 250 * MsPerSecond

\* what a game has achieved so far
Progress == <<playTime, levelTimer, level, score, obstacles>>

\* C20: pausing and resuming keeps the progress of the game: setState('paused')
\* from 'playing', every update call made while paused, and setState('playing')
\* from 'paused' each leave playTime, levelTimer, level, score and the
\* obstacle list as they are; paused, the model is not running; resumed, it
\* is playing and running, and the next update adds its deltaTime to the
\* playTime kept, and to the levelTimer kept unless that levels up.
C20_PauseKeepsProgress ==
    [][/\ (last'.op = "setState" /\ state = "playing" /\ state' = "paused")
            => (UNCHANGED Progress /\ ~isRunning')
       /\ (last'.op = "update" /\ state = "paused")
            => (UNCHANGED Progress /\ state' = "paused"
                /\ isRunning' = isRunning)
       /\ (last'.op = "setState" /\ state = "paused" /\ state' = "playing")
            => (UNCHANGED Progress /\ isRunning')
       /\ (last'.op = "update" /\ state = "playing" /\ isRunning)
            => LET deltaTime == playTime' - playTime
               IN  /\ deltaTime \in DeltaTimes
                   /\ \/ levelTimer' = levelTimer + deltaTime /\ level' = level
                      \/ levelTimer' = 0 /\ level' = level + 1]_vars

\* update has been called on a paused game that has play time, a level timer
\* behind it and obstacles on the canvas
C20_Witness ==
    /\ state = "paused" /\ ~isRunning /\ last.op = "update"
    /\ playTime > 0 /\ levelTimer > 0 /\ frames > 0
    /\ Len(obstacles) > 0

\* C21: in every reachable state (deltaTime >= 0), a level below 99 comes
\* with a levelTimer below 30 s: the timer reaches or exceeds 30 s only at
\* level 99.
C21_TimerBelowPeriod ==
    level < 99 => levelTimer < 30 * MsPerSecond

\* a single call of 60 s took the timer past the period below level 99: the
\* level-up left it at 0
C21_Witness ==
    /\ last.op = "update" /\ state = "playing" /\ frames = 1
    /\ playTime = 60000 /\ level = 2 /\ levelTimer = 0

====
